---- MODULE Spec2Model ----
(***************************************************************************)
(* Model of src/app.py: the Streamlit page of the stock analysis app.      *)
(* One session: the stored credential, and the script run that a form      *)
(* submission triggers.  An analyze request is followed call by call       *)
(* through the external operations it invokes (price fetch, metadata,      *)
(* metrics, news, recommendation engine, sentiment summarizer); what it    *)
(* writes to the page is kept in `out`, what it calls in `calls`.          *)
(***************************************************************************)
EXTENDS Integers, Sequences, FiniteSets, TLC

VARIABLES
    api_key,            \* st.session_state['GEMINI_API_KEY']
    api_key_input,      \* the latest non-empty text submitted in api_key_form
    pc,                 \* position of the script run
    stock_symbol,       \* text of the symbol input, a sequence of characters
    stock_data,         \* result of get_stock_data: None or Some(bars)
    display_data,       \* the series handed to plot_stock_chart
    company_info,       \* result of get_company_info (a dict)
    financial_metrics,  \* result of get_financial_metrics (a dict)
    news_articles,      \* result of the latest get_news_for_asset
    analysis_result,    \* result of generate_stock_analysis (a dict)
    out,                \* the elements written to the page, in order
    calls               \* the external operations invoked by this run, in order

vars == <<api_key, api_key_input, pc, stock_symbol, stock_data, display_data, company_info,
          financial_metrics, news_articles, analysis_result, out, calls>>

-----------------------------------------------------------------------------
(* Bounds of the model *)

\* fetched price series are Extra bars shorter or longer than the display
\* window, or exactly as long
Extra == 1
\* longest news list a fetch returns (the code asks for at most 5)
MaxNews == 2

-----------------------------------------------------------------------------
(* Values *)

\* Python's None and a present value, for results that may be None
None == [some |-> FALSE, v |-> <<>>]
Some(x) == [some |-> TRUE, v |-> x]

\* a displayed or stored scalar is a pair <<tag, n>>
NA == <<"N/A", 0>>
PyNone == <<"None", 0>>
Num(n) == <<"num", n>>
Str(n) == <<"str", n>>
Lit(s) == <<s, 0>>
SymbolText == <<"symbol", 0>>

EmptyDict == [k \in {} |-> <<"N/A", 0>>]

\* truth value of a dict in an `if`: an empty dict is false
NonEmpty(d) == DOMAIN d # {}

\* dict.get(key, default)
Get(d, key, default) == IF key \in DOMAIN d THEN d[key] ELSE default

\* truth value of a scalar in an `if`
Truthy(v) == v[1] \notin {"None", "N/A"} /\ ~(v[1] = "num" /\ v[2] = 0)

\* f"{x * 100:.2f}%"
Percent(v) == <<"pct", v[2] * 100>>

\* one element written to the page
Item(w, tab, label, val) == [w |-> w, tab |-> tab, label |-> label, val |-> val]

\* one invocation of an external operation: the news list passed to it or
\* returned by it, and whether it returned normally
Call(op, news, ok) == [op |-> op, news |-> news, ok |-> ok]

-----------------------------------------------------------------------------
(* Symbols and the asset kind *)

UpperChar(c) ==
    CASE c = "e" -> "E"
      [] c = "t" -> "T"
      [] c = "h" -> "H"
      [] c = "u" -> "U"
      [] c = "s" -> "S"
      [] c = "d" -> "D"
      [] OTHER -> c

\* str.upper()
Upper(s) == [i \in DOMAIN s |-> UpperChar(s[i])]

IsCryptoColon(sym) == \E i \in DOMAIN sym : Upper(sym)[i] \in {"-", ":"}

\* "-" in stock_symbol.upper()
IsCrypto(sym) == \E i \in DOMAIN sym : Upper(sym)[i] = "-"

HasHyphen(sym) == \E i \in DOMAIN sym : sym[i] = "-"

Symbols ==
    { <<"A", "A", "P", "L">>,
      <<"I", "D", "X", ":", "B", "B", "C", "A">>,
      <<"B", "T", "C", "-", "U", "S", "D">>,
      <<"e", "t", "h", "-", "u", "s", "d">> }

-----------------------------------------------------------------------------
(* Display window *)

DisplayWindow == 252
TailLen == 252

HeadRows(s, n) == IF Len(s) <= n THEN s ELSE SubSeq(s, 1, n)

\* DataFrame.tail(n): the last n rows, in order
TailRows(s, n) == IF Len(s) <= n THEN s ELSE SubSeq(s, Len(s) - n + 1, Len(s))

\* lines 85-88
DisplayData(bars) == IF Len(bars) > DisplayWindow THEN TailRows(bars, TailLen) ELSE bars

\* a fetched series: bars numbered by date, ascending
Series(L) == [i \in 1..L |-> i]

SeriesLengths == {DisplayWindow - Extra, DisplayWindow, DisplayWindow + Extra}

-----------------------------------------------------------------------------
(* Tab 2: company information (lines 138-182) *)

InfoCrypto(info) ==
    IF NonEmpty(info)
    THEN << Item("write", "tab2", "Name", Get(info, "longName", SymbolText)),
            Item("write", "tab2", "Category", Lit("Cryptocurrency")),
            Item("write", "tab2", "Symbol", SymbolText),
            Item("write", "tab2", "Market", Lit("Cryptocurrency")),
            Item("write", "tab2", "Market Cap", Get(info, "marketCap", NA)),
            Item("write", "tab2", "Volume (24h)", Get(info, "volume24Hr", NA)),
            Item("write", "tab2", "Circulating Supply", Get(info, "circulatingSupply", NA)),
            Item("markdown", "tab2", "Description", Lit("heading")),
            Item("write", "tab2", "description",
                 Get(info, "description",
                     Get(info, "longBusinessSummary", Lit("No description available")))) >>
    ELSE << Item("warning", "tab2", "Cryptocurrency information not available", NA) >>

InfoEquity(info) ==
    IF NonEmpty(info)
    THEN << Item("write", "tab2", "Company Name", Get(info, "longName", NA)),
            Item("write", "tab2", "Sector", Get(info, "sector", NA)),
            Item("write", "tab2", "Industry", Get(info, "industry", NA)),
            Item("write", "tab2", "Country", Get(info, "country", NA)),
            Item("write", "tab2", "Exchange", Get(info, "exchange", NA)),
            Item("write", "tab2", "Market Cap", Get(info, "marketCap", NA)),
            Item("write", "tab2", "Employees", Get(info, "fullTimeEmployees", NA)),
            Item("write", "tab2", "Website", Get(info, "website", NA)),
            Item("markdown", "tab2", "Business Summary", Lit("heading")),
            Item("write", "tab2", "summary",
                 Get(info, "longBusinessSummary", Lit("No business summary available"))) >>
    ELSE << Item("warning", "tab2", "Company information not available", NA) >>

RenderTab2(sym, info) ==
    << Item("subheader", "tab2", "About", SymbolText) >>
    \o (IF IsCrypto(sym) THEN InfoCrypto(info) ELSE InfoEquity(info))

-----------------------------------------------------------------------------
(* Tab 3: financial metrics (lines 184-252) *)

PercentIfPresentNoGuard(m, key) == Percent(Get(m, key, Num(0)))

\* f"{m.get(key, 0) * 100:.2f}%" if m.get(key) else "N/A"
PercentIfTruthy(m, key) ==
    IF Truthy(Get(m, key, PyNone)) THEN Percent(Get(m, key, Num(0))) ELSE NA

\* f"{m.get(key, 0) * 100:.2f}%" if m.get(key) is not None else "N/A"
PercentIfNotNone(m, key) ==
    IF Get(m, key, PyNone) # PyNone THEN Percent(Get(m, key, Num(0))) ELSE NA

\* lines 192-206
MetricsCol1(sym, m) ==
    << Item("metric", "tab3.col1", "Current Price", Get(m, "currentPrice", NA)) >>
    \o (IF IsCrypto(sym)
        THEN << Item("metric", "tab3.col1", "24h Change",
                     PercentIfTruthy(m, "regularMarketChangePercent")),
                Item("metric", "tab3.col1", "24h Volume",
                     Get(m, "volume24Hr", Get(m, "volume", NA))),
                Item("metric", "tab3.col1", "Market Cap", Get(m, "marketCap", NA)),
                Item("metric", "tab3.col1", "Circulating Supply",
                     Get(m, "circulatingSupply", NA)) >>
        ELSE << Item("metric", "tab3.col1", "P/E Ratio", Get(m, "trailingPE", NA)),
                Item("metric", "tab3.col1", "Dividend Yield",
                     PercentIfTruthy(m, "dividendYield")),
                Item("metric", "tab3.col1", "52 Week High", Get(m, "fiftyTwoWeekHigh", NA)),
                Item("metric", "tab3.col1", "52 Week Low", Get(m, "fiftyTwoWeekLow", NA)) >>)

\* lines 208-222
MetricsCol2(sym, m) ==
    IF IsCrypto(sym)
    THEN << Item("metric", "tab3.col2", "All-Time High", Get(m, "fiftyTwoWeekHigh", NA)),
            Item("metric", "tab3.col2", "All-Time Low", Get(m, "fiftyTwoWeekLow", NA)),
            Item("metric", "tab3.col2", "Max Supply", Get(m, "maxSupply", NA)),
            Item("metric", "tab3.col2", "Total Supply", Get(m, "totalSupply", NA)),
            Item("metric", "tab3.col2", "Volume Ratio",
                 Get(m, "averageDailyVolume10Day", NA)) >>
    ELSE << Item("metric", "tab3.col2", "EPS", Get(m, "trailingEps", NA)),
            Item("metric", "tab3.col2", "Price to Book", Get(m, "priceToBook", NA)),
            Item("metric", "tab3.col2", "Return on Equity",
                 PercentIfTruthy(m, "returnOnEquity")),
            Item("metric", "tab3.col2", "Profit Margins",
                 PercentIfTruthy(m, "profitMargins")),
            Item("metric", "tab3.col2", "Debt to Equity", Get(m, "debtToEquity", NA)) >>

\* lines 225-250
MetricsMore(sym, m) ==
    IF IsCrypto(sym)
    THEN << Item("write", "tab3.more", "Market Dominance", Get(m, "marketDominance", NA)),
            Item("write", "tab3.more", "Trading Volume", Get(m, "volume", NA)),
            Item("write", "tab3.more", "Avg Volume (3m)", Get(m, "averageVolume3Months", NA)),
            Item("write", "tab3.more", "Avg Volume (10d)",
                 Get(m, "averageDailyVolume10Day", NA)),
            Item("write", "tab3.more", "Beta", Get(m, "beta", NA)),
            Item("write", "tab3.more", "YTD Return", Get(m, "ytdReturn", NA)) >>
    ELSE << Item("write", "tab3.more", "Revenue Growth",
                 PercentIfNotNone(m, "revenueGrowth")),
            Item("write", "tab3.more", "Gross Margins", PercentIfNotNone(m, "grossMargins")),
            Item("write", "tab3.more", "Operating Margins",
                 PercentIfNotNone(m, "operatingMargins")),
            Item("write", "tab3.more", "Quick Ratio", Get(m, "quickRatio", NA)),
            Item("write", "tab3.more", "Current Ratio", Get(m, "currentRatio", NA)),
            Item("write", "tab3.more", "Beta", Get(m, "beta", NA)),
            Item("write", "tab3.more", "Shares Outstanding", Get(m, "sharesOutstanding", NA)),
            Item("write", "tab3.more", "Book Value", Get(m, "bookValue", NA)),
            Item("write", "tab3.more", "Target Mean Price", Get(m, "targetMeanPrice", NA)) >>

RenderTab3(sym, m) ==
    << Item("subheader", "tab3", "Metrics",
            Lit(IF IsCrypto(sym) THEN "Cryptocurrency" ELSE "Financial")) >>
    \o (IF NonEmpty(m)
        THEN MetricsCol1(sym, m) \o MetricsCol2(sym, m) \o MetricsMore(sym, m)
        ELSE << Item("warning", "tab3", "Financial metrics not available", NA) >>)

-----------------------------------------------------------------------------
(* Tab 1: the recommendation (lines 113-136) *)

\* analysis_result.get("recommendation", "NEUTRAL")
Recommendation(r) == Get(r, "recommendation", "NEUTRAL")

\* lines 117-122: the widget that carries the label
RecommendationWidget(rec) ==
    IF rec = "BUY" THEN "success" ELSE IF rec = "SELL" THEN "error" ELSE "info"

RiskItems(risks) == [i \in DOMAIN risks |-> Item("markdown", "tab1", "risk", Str(risks[i]))]

RenderRecommendation(r) ==
    << Item(RecommendationWidget(Recommendation(r)), "tab1", "Recommendation",
            Lit(Recommendation(r))),
       Item("markdown", "tab1", "Analysis Summary", Lit("heading")),
       Item("write", "tab1", "summary", Get(r, "summary", Lit("No summary available"))),
       Item("markdown", "tab1", "Risk Factors", Lit("heading")) >>
    \o RiskItems(Get(r, "risk_factors", <<>>))
    \o << Item("write", "tab1", "Detailed Analysis",
               Get(r, "detailed_analysis", Lit("No detailed analysis available"))) >>

-----------------------------------------------------------------------------
(* Tab 4: news and sentiment (lines 254-309) *)

\* lines 272-281
SentimentColor(trend) ==
    CASE trend = "strongly positive" -> "darkgreen"
      [] trend = "positive" -> "green"
      [] trend = "strongly negative" -> "darkred"
      [] trend = "negative" -> "red"
      [] OTHER -> "grey"

ArticleItems(news) == [i \in DOMAIN news |-> Item("expander", "tab4", "article", Str(news[i]))]

\* lines 264-306
RenderSentiment(s, news) ==
    << Item("markdown", "tab4", "Market Sentiment", Lit("heading")),
       Item("markdown", "tab4", "Sentiment",
            <<SentimentColor(Get(s, "trend", "neutral")), Get(s, "sentiment_score", 0)>>),
       Item("write", "tab4", "summary", Get(s, "summary", Lit("No news analysis available"))) >>
    \o (IF Get(s, "key_topics", <<>>) # <<>>
        THEN << Item("markdown", "tab4", "Key Topics in News", Lit("heading")),
                Item("write", "tab4", "key_topics", Str(Len(Get(s, "key_topics", <<>>)))) >>
        ELSE <<>>)
    \o << Item("markdown", "tab4", "Recent News Articles", Lit("heading")) >>
    \o ArticleItems(news)

\* lines 308-309
NoNews ==
    << Item("info", "tab4", "No recent news found", SymbolText),
       Item("write", "tab4", "Try a different symbol or check back later", NA) >>

-----------------------------------------------------------------------------
(* What the external operations may return *)

KeyInputs == {"", "k1", "k2"}

InfoKeys == {"longName", "sector", "industry", "country", "exchange", "marketCap",
             "fullTimeEmployees", "website", "longBusinessSummary", "volume24Hr",
             "circulatingSupply", "description"}

\* get_company_info: an empty dict, or attributes of the asset
InfoResults == { EmptyDict, [k \in InfoKeys \ {"description"} |-> Str(1)] }

PercentKeys == {"dividendYield", "returnOnEquity", "profitMargins", "revenueGrowth",
                "grossMargins", "operatingMargins", "regularMarketChangePercent"}

PlainKeys == {"currentPrice", "trailingPE", "fiftyTwoWeekHigh", "fiftyTwoWeekLow",
              "trailingEps", "priceToBook", "debtToEquity", "quickRatio", "currentRatio",
              "beta", "sharesOutstanding", "bookValue", "targetMeanPrice", "volume24Hr",
              "volume", "marketCap", "circulatingSupply", "maxSupply", "totalSupply",
              "averageDailyVolume10Day", "marketDominance", "averageVolume3Months",
              "ytdReturn"}

MetricValues == {PyNone, Num(0), Num(3)}

\* get_financial_metrics: an empty dict, or indicators some of which are
\* missing, None, zero or a number
MetricsResults ==
    {EmptyDict} \cup
    { [k \in PercentKeys \cup PlainKeys |-> v] : v \in MetricValues } \cup
    { [k \in ks |-> Num(3)] : ks \in {PercentKeys, PlainKeys} }

\* get_news_for_asset: at most MaxNews articles, most recent first
NewsResults == { [i \in 1..n |-> n + 1 - i] : n \in 0..MaxNews }

AnalysisField(k, action) ==
    CASE k = "recommendation" -> action
      [] k = "summary" -> Str(1)
      [] k = "risk_factors" -> <<1, 2>>
      [] k = "detailed_analysis" -> Str(2)

\* generate_stock_analysis: a dict whose fields may be missing and whose
\* action is whatever the remote model answered
AnalysisResults ==
    { [k \in ks |-> AnalysisField(k, a)] :
        ks \in { {"recommendation", "summary", "risk_factors", "detailed_analysis"},
                 {"summary"} },
        a \in {"BUY", "SELL", "NEUTRAL", "HOLD"} }

SentimentField(k, trend) ==
    CASE k = "trend" -> trend
      [] k = "sentiment_score" -> 1
      [] k = "summary" -> Str(3)
      [] k = "key_topics" -> <<1>>

\* summarize_news_sentiment
SentimentResults ==
    { [k \in {"trend", "sentiment_score", "summary", "key_topics"} |-> SentimentField(k, t)] :
        t \in {"positive"} }
    \cup {EmptyDict}

-----------------------------------------------------------------------------
(* The script run *)

\* lines 21-72: title, the API-key expander and form, the symbol form
Header(saved) ==
    << Item("title", "main", "Financial Asset Analysis with Gemini AI", NA),
       Item("expander", "main", "Configure Google Gemini API",
            Lit(IF api_key = "" THEN "expanded" ELSE "collapsed")),
       Item("write", "main", "To use the AI analysis features, provide an API key", NA) >>
    \o (IF saved THEN << Item("success", "main", "API key saved successfully", NA) >>
        ELSE <<>>)
    \o << Item("info", "main", "Your API key is stored in your session only", NA),
          Item("form", "main", "stock_form", NA) >>

\* lines 317-319
Footer ==
    << Item("markdown", "main", "---", NA),
       Item("markdown", "main", "Disclaimer", NA) >>

\* every name the script binds is gone when the script is run again
FreshLocals ==
    /\ stock_data' = None
    /\ display_data' = <<>>
    /\ company_info' = EmptyDict
    /\ financial_metrics' = EmptyDict
    /\ news_articles' = <<>>
    /\ analysis_result' = None
    /\ calls' = <<>>

Locals == <<stock_data, display_data, company_info, financial_metrics,
            news_articles, analysis_result>>

OnExceptionUncaught == [out |-> out, pc |-> "crashed"]

\* lines 313-315: except Exception around the whole request
OnException ==
    [out |-> out \o << Item("error", "main", "An error occurred", NA),
                      Item("info", "main", "Please check if the stock symbol is correct", NA) >>,
     pc |-> "footer"]

FoundAlways(data) == TRUE

\* line 83: stock_data is not None
Found(data) == data.some

StoredKeyAlways(k) == k

\* lines 55-56: the key kept when the form is submitted with input k
StoredKey(k) == IF k # "" THEN k ELSE api_key

\* lines 45-57: the api_key_form is submitted with input k
SaveKey(k) ==
    /\ pc = "idle"
    /\ api_key' = StoredKey(k)
    /\ api_key_input' = IF k = "" THEN api_key_input ELSE k
    /\ out' = Header(k # "") \o Footer
    /\ stock_symbol' = <<>>
    /\ FreshLocals
    /\ pc' = "idle"

\* lines 62-77: the stock_form is submitted with symbol sym
SubmitAnalyze(sym) ==
    /\ pc = "idle"
    /\ stock_symbol' = sym
    /\ FreshLocals
    /\ IF sym # <<>>
       THEN out' = Header(FALSE) /\ pc' = "get_stock_data"
       ELSE out' = Header(FALSE) \o Footer /\ pc' = "idle"
    /\ UNCHANGED <<api_key, api_key_input>>

\* lines 81-101 and 310-311
GetStockData ==
    /\ pc = "get_stock_data"
    /\ \/ /\ calls' = Append(calls, Call("get_stock_data", <<>>, FALSE))
          /\ out' = OnException.out
          /\ pc' = OnException.pc
          /\ UNCHANGED <<stock_data, display_data>>
       \/ \E data \in {None} \cup { Some(Series(L)) : L \in SeriesLengths } :
            /\ calls' = Append(calls, Call("get_stock_data", <<>>, TRUE))
            /\ stock_data' = data
            /\ IF Found(data)
               THEN /\ display_data' = DisplayData(data.v)
                    /\ out' = out \o
                         << Item("tabs", "main", "tabs", NA),
                            Item("subheader", "tab1", "Price Chart", SymbolText),
                            Item("chart", "tab1", "plot_stock_chart", NA),
                            Item("subheader", "tab1", "Gemini AI Analysis",
                                 Lit(IF IsCrypto(stock_symbol) THEN "Cryptocurrency"
                                     ELSE "Stock")) >>
                    /\ pc' = "get_company_info"
               ELSE /\ display_data' = display_data
                    /\ out' = Append(out, Item("error", "main", "Could not retrieve data",
                                               SymbolText))
                    /\ pc' = "footer"
    /\ UNCHANGED <<api_key, api_key_input, stock_symbol, company_info, financial_metrics,
                   news_articles, analysis_result>>

\* line 104
GetCompanyInfo ==
    /\ pc = "get_company_info"
    /\ \/ /\ calls' = Append(calls, Call("get_company_info", <<>>, FALSE))
          /\ out' = OnException.out
          /\ pc' = OnException.pc
          /\ UNCHANGED company_info
       \/ \E info \in InfoResults :
            /\ calls' = Append(calls, Call("get_company_info", <<>>, TRUE))
            /\ company_info' = info
            /\ pc' = "get_financial_metrics"
            /\ UNCHANGED out
    /\ UNCHANGED <<api_key, api_key_input, stock_symbol, stock_data, display_data,
                   financial_metrics,
                   news_articles, analysis_result>>

\* line 105
GetFinancialMetrics ==
    /\ pc = "get_financial_metrics"
    /\ \/ /\ calls' = Append(calls, Call("get_financial_metrics", <<>>, FALSE))
          /\ out' = OnException.out
          /\ pc' = OnException.pc
          /\ UNCHANGED financial_metrics
       \/ \E m \in MetricsResults :
            /\ calls' = Append(calls, Call("get_financial_metrics", <<>>, TRUE))
            /\ financial_metrics' = m
            /\ pc' = "get_news_for_asset"
            /\ UNCHANGED out
    /\ UNCHANGED <<api_key, api_key_input, stock_symbol, stock_data, display_data,
                   company_info,
                   news_articles, analysis_result>>

\* line 108
GetNewsForAnalysis ==
    /\ pc = "get_news_for_asset"
    /\ \/ /\ calls' = Append(calls, Call("get_news_for_asset", <<>>, FALSE))
          /\ out' = OnException.out
          /\ pc' = OnException.pc
          /\ UNCHANGED news_articles
       \/ \E news \in NewsResults :
            /\ calls' = Append(calls, Call("get_news_for_asset", news, TRUE))
            /\ news_articles' = news
            /\ pc' = "generate_stock_analysis"
            /\ UNCHANGED out
    /\ UNCHANGED <<api_key, api_key_input, stock_symbol, stock_data, display_data,
                   company_info,
                   financial_metrics, analysis_result>>

EngineArgumentStale(news) == <<>>

\* line 111: the news list handed to generate_stock_analysis
EngineArgument(news) == news

\* lines 111-255: the engine is called whatever the stored key is; with its
\* result the rest of tab 1, tab 2, tab 3 and the heading of tab 4 are written
GenerateStockAnalysis ==
    /\ pc = "generate_stock_analysis"
    /\ \/ /\ calls' = Append(calls, Call("generate_stock_analysis",
                                         EngineArgument(news_articles), FALSE))
          /\ out' = OnException.out
          /\ pc' = OnException.pc
          /\ UNCHANGED analysis_result
       \/ \* the engine returns something that is no dict: .get raises at line 114
          /\ calls' = Append(calls, Call("generate_stock_analysis",
                                         EngineArgument(news_articles), TRUE))
          /\ analysis_result' = None
          /\ out' = OnException.out
          /\ pc' = OnException.pc
       \/ \E r \in AnalysisResults :
            /\ calls' = Append(calls, Call("generate_stock_analysis",
                                           EngineArgument(news_articles), TRUE))
            /\ analysis_result' = Some(r)
            /\ out' = out \o RenderRecommendation(r)
                          \o RenderTab2(stock_symbol, company_info)
                          \o RenderTab3(stock_symbol, financial_metrics)
                          \o << Item("subheader", "tab4", "News & Sentiment Analysis",
                                     SymbolText) >>
            /\ pc' = "get_news_for_asset_2"
    /\ UNCHANGED <<api_key, api_key_input, stock_symbol, stock_data, display_data,
                   company_info,
                   financial_metrics, news_articles>>

\* lines 259-261 and 307-309
GetNewsForSentiment ==
    /\ pc = "get_news_for_asset_2"
    /\ \/ /\ calls' = Append(calls, Call("get_news_for_asset", <<>>, FALSE))
          /\ out' = OnException.out
          /\ pc' = OnException.pc
          /\ UNCHANGED news_articles
       \/ \E news \in NewsResults :
            /\ calls' = Append(calls, Call("get_news_for_asset", news, TRUE))
            /\ news_articles' = news
            /\ IF news # <<>>
               THEN pc' = "summarize_news_sentiment" /\ UNCHANGED out
               ELSE pc' = "footer" /\ out' = out \o NoNews
    /\ UNCHANGED <<api_key, api_key_input, stock_symbol, stock_data, display_data,
                   company_info,
                   financial_metrics, analysis_result>>

\* lines 263-306
SummarizeNewsSentiment ==
    /\ pc = "summarize_news_sentiment"
    /\ \/ /\ calls' = Append(calls, Call("summarize_news_sentiment", news_articles, FALSE))
          /\ out' = OnException.out
          /\ pc' = OnException.pc
       \/ \E s \in SentimentResults :
            /\ calls' = Append(calls, Call("summarize_news_sentiment", news_articles, TRUE))
            /\ out' = out \o RenderSentiment(s, news_articles)
            /\ pc' = "footer"
    /\ UNCHANGED <<api_key, api_key_input, stock_symbol, Locals>>

\* lines 317-319: the script ends with the footer
RenderFooter ==
    /\ pc = "footer"
    /\ out' = out \o Footer
    /\ pc' = "idle"
    /\ UNCHANGED <<api_key, api_key_input, stock_symbol, Locals, calls>>

Init ==
    /\ api_key = ""
    /\ api_key_input = ""
    /\ pc = "idle"
    /\ stock_symbol = <<>>
    /\ stock_data = None
    /\ display_data = <<>>
    /\ company_info = EmptyDict
    /\ financial_metrics = EmptyDict
    /\ news_articles = <<>>
    /\ analysis_result = None
    /\ out = Header(FALSE) \o Footer
    /\ calls = <<>>

Next ==
    \/ \E k \in KeyInputs : SaveKey(k)
    \/ \E sym \in Symbols \cup {<<>>} : SubmitAnalyze(sym)
    \/ GetStockData
    \/ GetCompanyInfo
    \/ GetFinancialMetrics
    \/ GetNewsForAnalysis
    \/ GenerateStockAnalysis
    \/ GetNewsForSentiment
    \/ SummarizeNewsSentiment
    \/ RenderFooter

Spec == Init /\ [][Next]_vars

-----------------------------------------------------------------------------
(* Reading the page and the call log *)

Shown(w, tab, label) ==
    \E i \in DOMAIN out : out[i].w = w /\ out[i].tab = tab /\ out[i].label = label

InTab(tab) == { i \in DOMAIN out : out[i].tab = tab }

Called(op) == { i \in DOMAIN calls : calls[i].op = op }

Raised == \E i \in DOMAIN calls : ~calls[i].ok

\* the run of an analyze request has ended
RequestDone == pc = "idle" /\ stock_symbol # <<>>

\* the price fetch of this run returned a series
PriceFound == calls # <<>> /\ calls[1].ok /\ stock_data.some

\* the price fetch of this run returned no series
PriceNotFound == calls # <<>> /\ calls[1].ok /\ ~stock_data.some

FooterShown ==
    /\ Len(out) >= 2
    /\ SubSeq(out, Len(out) - 1, Len(out)) = Footer

ErrorNotice == Shown("error", "main", "An error occurred")

-----------------------------------------------------------------------------
(* C1: the asset kind of every section *)

CryptoLabels ==
    {"Name", "Category", "Symbol", "Market", "Volume (24h)", "Description", "description",
     "Cryptocurrency information not available",
     "24h Change", "24h Volume", "All-Time High", "All-Time Low", "Max Supply",
     "Total Supply", "Volume Ratio", "Market Dominance", "Trading Volume",
     "Avg Volume (3m)", "Avg Volume (10d)", "YTD Return"}

EquityLabels ==
    {"Company Name", "Sector", "Industry", "Country", "Exchange", "Employees", "Website",
     "Business Summary", "summary", "Company information not available",
     "P/E Ratio", "Dividend Yield", "52 Week High", "52 Week Low", "EPS", "Price to Book",
     "Return on Equity", "Profit Margins", "Debt to Equity", "Revenue Growth",
     "Gross Margins", "Operating Margins", "Quick Ratio", "Current Ratio",
     "Shares Outstanding", "Book Value", "Target Mean Price"}

KindSections == {"tab1", "tab2", "tab3", "tab3.col1", "tab3.col2", "tab3.more"}

\* the attribute set an element of the page belongs to, if it belongs to one
KindsOf(it) ==
    IF it.w = "subheader" /\ it.tab \in {"tab1", "tab3"}
    THEN (IF it.val[1] = "Cryptocurrency" THEN {"crypto"}
          ELSE IF it.val[1] \in {"Stock", "Financial"} THEN {"equity"} ELSE {})
    ELSE IF it.tab \in KindSections \ {"tab1"}
         THEN (IF it.label \in CryptoLabels THEN {"crypto"}
               ELSE IF it.label \in EquityLabels THEN {"equity"} ELSE {})
         ELSE {}

SectionKinds(sec) == UNION { KindsOf(out[i]) : i \in InTab(sec) }

\* C1: once the price series is found, every section that branches on the
\* asset kind shows the crypto attribute set exactly when the submitted
\* symbol contains a hyphen and the equity set otherwise, so that no two
\* sections of a request disagree; a section written in full shows its kind.
C1_AssetKind ==
    PriceFound =>
        /\ \A sec \in KindSections :
              SectionKinds(sec) \subseteq
                  {IF HasHyphen(stock_symbol) THEN "crypto" ELSE "equity"}
        /\ SectionKinds("tab1") # {}
        /\ \A sec \in KindSections :
              InTab(sec) # {} => SectionKinds(sec) # {}

C1_Witness ==
    /\ RequestDone /\ PriceFound
    /\ HasHyphen(stock_symbol)
    /\ \A sec \in KindSections : SectionKinds(sec) = {"crypto"}

-----------------------------------------------------------------------------
(* C2: the display window *)

\* C2: the series handed to the chart has length min(L, 252) and is the
\* last min(L, 252) bars of the fetched series, in their order.
C2_DisplayWindow ==
    Shown("chart", "tab1", "plot_stock_chart") =>
        LET L == Len(stock_data.v)
            n == IF L < 252 THEN L ELSE 252
        IN /\ Len(display_data) = n
           /\ \A i \in 1..n : display_data[i] = stock_data.v[L - n + i]

C2_Witness ==
    /\ Shown("chart", "tab1", "plot_stock_chart")
    /\ Len(stock_data.v) > 252
    /\ Len(display_data) = 252
    /\ display_data[252] = Len(stock_data.v)

-----------------------------------------------------------------------------
(* C3: symbol not found *)

\* C3: when the price fetch returns no series, the run shows the 'could not
\* retrieve data' message, writes nothing into any of the tabs, and invokes
\* no other operation: the price fetch stays the only call of the run.
C3_NotFoundTerminal ==
    PriceNotFound =>
        /\ Shown("error", "main", "Could not retrieve data")
        /\ \A i \in DOMAIN out : out[i].tab = "main" /\ out[i].w # "tabs"
        /\ Len(calls) = 1
        /\ pc \in {"footer", "idle"}

C3_Witness ==
    /\ RequestDone
    /\ PriceNotFound
    /\ Shown("error", "main", "Could not retrieve data")
    /\ FooterShown

-----------------------------------------------------------------------------
(* C4: one failing fetch and the other sections *)

\* a fetch fails when it raises or returns an empty result
InfoFailed ==
    \E i \in Called("get_company_info") : ~calls[i].ok \/ company_info = EmptyDict

MetricsFailed ==
    \E i \in Called("get_financial_metrics") : ~calls[i].ok \/ financial_metrics = EmptyDict

NewsFailed ==
    \E i \in Called("get_news_for_asset") : ~calls[i].ok \/ calls[i].news = <<>>

InfoPlaceholder ==
    \/ Shown("warning", "tab2", "Cryptocurrency information not available")
    \/ Shown("warning", "tab2", "Company information not available")

MetricsPlaceholder == Shown("warning", "tab3", "Financial metrics not available")

NewsPlaceholder == Shown("info", "tab4", "No recent news found")

\* a section is rendered when its tab holds its heading and something else
SectionRendered(tab) == Cardinality({ i \in DOMAIN out : out[i].tab \in tab }) >= 2

InfoSection == {"tab2"}
MetricsSection == {"tab3", "tab3.col1", "tab3.col2", "tab3.more"}
NewsSection == {"tab4"}

\* C4: in a finished request whose price series was found and in which
\* exactly one of the metadata, metrics and news fetches failed, the chart and
\* the sections of the other fetches are rendered without a placeholder.
C4_OneFailureIsLocal ==
    (RequestDone /\ PriceFound) =>
        /\ (InfoFailed /\ ~MetricsFailed /\ ~NewsFailed) =>
              /\ Shown("chart", "tab1", "plot_stock_chart")
              /\ SectionRendered(InfoSection) /\ InfoPlaceholder
              /\ SectionRendered(MetricsSection) /\ ~MetricsPlaceholder
              /\ SectionRendered(NewsSection) /\ ~NewsPlaceholder
        /\ (MetricsFailed /\ ~InfoFailed /\ ~NewsFailed) =>
              /\ Shown("chart", "tab1", "plot_stock_chart")
              /\ SectionRendered(InfoSection) /\ ~InfoPlaceholder
              /\ SectionRendered(MetricsSection) /\ MetricsPlaceholder
              /\ SectionRendered(NewsSection) /\ ~NewsPlaceholder
        /\ (NewsFailed /\ ~InfoFailed /\ ~MetricsFailed) =>
              /\ Shown("chart", "tab1", "plot_stock_chart")
              /\ SectionRendered(InfoSection) /\ ~InfoPlaceholder
              /\ SectionRendered(MetricsSection) /\ ~MetricsPlaceholder

-----------------------------------------------------------------------------
(* C5: a failing recommendation call *)

\* the recommendation call raised, returned no dict, or returned a dict
\* without the action field
EngineFailed ==
    \E i \in Called("generate_stock_analysis") :
        \/ ~calls[i].ok
        \/ ~analysis_result.some
        \/ "recommendation" \notin DOMAIN analysis_result.v

\* C5: in a finished request whose recommendation call failed, the page
\* shows the recommendation NEUTRAL with no risk factor and an error notice,
\* and the asset-info, metrics and news sections are rendered.
C5_EngineFailureDegrades ==
    (RequestDone /\ EngineFailed) =>
        /\ Shown("info", "tab1", "Recommendation")
        /\ ~Shown("markdown", "tab1", "risk")
        /\ ErrorNotice
        /\ SectionRendered(InfoSection)
        /\ SectionRendered(MetricsSection)
        /\ SectionRendered(NewsSection)

-----------------------------------------------------------------------------
(* C6: missing credential *)

\* C6: while the stored API key is empty the recommendation call is never
\* made, and a request whose price series was found and in which nothing
\* raised ends with a setup prompt in the recommendation section.
C6_NoCallWithoutKey ==
    api_key = "" =>
        /\ Called("generate_stock_analysis") = {}
        /\ (RequestDone /\ PriceFound /\ ~Raised) =>
              \E i \in InTab("tab1") : out[i].label = "Configure Google Gemini API"

-----------------------------------------------------------------------------
(* C7: missing and None metrics of an equity *)

\* the key each equity metric is read from (lines 195-250)
EquityMetricKey(label) ==
    CASE label = "Current Price" -> "currentPrice"
      [] label = "P/E Ratio" -> "trailingPE"
      [] label = "Dividend Yield" -> "dividendYield"
      [] label = "52 Week High" -> "fiftyTwoWeekHigh"
      [] label = "52 Week Low" -> "fiftyTwoWeekLow"
      [] label = "EPS" -> "trailingEps"
      [] label = "Price to Book" -> "priceToBook"
      [] label = "Return on Equity" -> "returnOnEquity"
      [] label = "Profit Margins" -> "profitMargins"
      [] label = "Debt to Equity" -> "debtToEquity"
      [] label = "Revenue Growth" -> "revenueGrowth"
      [] label = "Gross Margins" -> "grossMargins"
      [] label = "Operating Margins" -> "operatingMargins"
      [] label = "Quick Ratio" -> "quickRatio"
      [] label = "Current Ratio" -> "currentRatio"
      [] label = "Beta" -> "beta"
      [] label = "Shares Outstanding" -> "sharesOutstanding"
      [] label = "Book Value" -> "bookValue"
      [] label = "Target Mean Price" -> "targetMeanPrice"

EquityMetricItems ==
    { i \in DOMAIN out : /\ out[i].tab \in {"tab3.col1", "tab3.col2", "tab3.more"}
                         /\ ~HasHyphen(stock_symbol) }

PercentFormatted ==
    {"dividendYield", "returnOnEquity", "profitMargins", "revenueGrowth", "grossMargins",
     "operatingMargins"}

\* C7 as claimed: every displayed equity metric whose key is absent from the
\* metrics mapping, or present with value None, is shown as "N/A".
C7_NoneOrAbsentIsNA ==
    \A i \in EquityMetricItems :
        LET key == EquityMetricKey(out[i].label) IN
        (key \notin DOMAIN financial_metrics \/ financial_metrics[key] = PyNone)
            => out[i].val = NA

\* C7 as amended: every displayed equity metric whose key is absent is shown
\* as "N/A"; a key present with value None is shown as "N/A" for the six
\* percent-formatted metrics and is handed to the widget as None for the
\* others; the equity metrics section is written in full in each case.
C7_AbsentIsNA ==
    /\ \A i \in EquityMetricItems :
          LET key == EquityMetricKey(out[i].label) IN
          /\ key \notin DOMAIN financial_metrics => out[i].val = NA
          /\ (key \in DOMAIN financial_metrics /\ financial_metrics[key] = PyNone) =>
                out[i].val = IF key \in PercentFormatted THEN NA ELSE PyNone
    /\ (EquityMetricItems # {} /\ pc \in {"get_news_for_asset_2", "summarize_news_sentiment",
                                           "footer", "idle"}) =>
          Cardinality(EquityMetricItems) = 19

C7_Witness ==
    /\ RequestDone
    /\ ~HasHyphen(stock_symbol)
    /\ "dividendYield" \in DOMAIN financial_metrics
    /\ financial_metrics["dividendYield"] = PyNone
    /\ financial_metrics["trailingPE"] = PyNone
    /\ \E i \in EquityMetricItems : out[i].label = "Dividend Yield" /\ out[i].val = NA
    /\ \E i \in EquityMetricItems : out[i].label = "P/E Ratio" /\ out[i].val = PyNone

-----------------------------------------------------------------------------
(* C8: errors are caught at the boundary of the request *)

\* C8: whenever an external operation of the run raised, or the engine's
\* result could not be read, the run has shown the error notice and goes on
\* to the footer; no run ends in an unhandled fault, and a run that has
\* ended has written the footer last.
C8_ErrorsCaught ==
    /\ pc # "crashed"
    /\ (Raised \/ (Called("generate_stock_analysis") # {} /\ pc \in {"footer", "idle"}
                   /\ ~analysis_result.some)) =>
           /\ ErrorNotice
           /\ pc \in {"footer", "idle"}
    /\ pc = "idle" => FooterShown

C8_Witness ==
    /\ RequestDone
    /\ \E i \in Called("summarize_news_sentiment") : ~calls[i].ok
    /\ ErrorNotice
    /\ FooterShown

-----------------------------------------------------------------------------
(* C9: the displayed action label *)

\* C9: the action label shown to the user is always one of BUY, SELL and
\* NEUTRAL, whatever record the recommendation engine returned.
C9_ActionInFixedSet ==
    \A i \in InTab("tab1") :
        out[i].label = "Recommendation" => out[i].val[1] \in {"BUY", "SELL", "NEUTRAL"}

-----------------------------------------------------------------------------
(* C10: the news list comes first *)

\* the latest call of get_news_for_asset before call i
LastNewsFetchBefore(i) ==
    LET before == { j \in Called("get_news_for_asset") : j < i }
    IN CHOOSE j \in before : \A k \in before : k <= j

\* C10: the recommendation engine and the sentiment summarizer are invoked
\* only after a news fetch of the same run has returned, with the list that
\* fetch returned, and only in a run whose price fetch returned a series.
C10_NewsBeforeEngineAndSentiment ==
    \A i \in Called("generate_stock_analysis") \cup Called("summarize_news_sentiment") :
        /\ PriceFound
        /\ \E j \in Called("get_news_for_asset") : j < i
        /\ calls[LastNewsFetchBefore(i)].ok
        /\ calls[i].news = calls[LastNewsFetchBefore(i)].news

C10_Witness ==
    /\ RequestDone
    /\ \E i \in Called("generate_stock_analysis"), j \in Called("summarize_news_sentiment") :
          /\ calls[i].news # <<>>
          /\ calls[j].news # <<>>
          /\ calls[i].news # calls[j].news

-----------------------------------------------------------------------------
(* C11: the stored credential *)

\* C11: the stored credential is empty until a key is saved and is at every
\* moment the latest non-empty text submitted through the save-key form:
\* no step of an analyze request and no save with a blank input changes it.
C11_StoredCredential ==
    /\ api_key = api_key_input
    /\ api_key \in KeyInputs

C11_Witness ==
    /\ RequestDone
    /\ Raised
    /\ api_key = "k2"
    /\ api_key_input = "k2"

====
